---- MODULE Spec2Model ----
(***************************************************************************)
(* A model of the Drain log template miner of src/drain.go: the LRU        *)
(* cluster cache, the fixed-depth prefix tree, Train and Match.            *)
(*                                                                         *)
(* Strings are sequences of one-character strings, so that tokenizing and  *)
(* the parameter patterns are computed on the characters of a line.        *)
(* A cluster pointer is the cluster's id; the nil pointer is id 0.         *)
(* Go ranges over the ParamPatterns map in an unspecified order, so        *)
(* getParamString is the set of labels a call can return.                  *)
(***************************************************************************)
EXTENDS Integers, Sequences, FiniteSets, TLC

VARIABLES
  config,           \* Drain.config
  rootNode,         \* Drain.rootNode: the prefix tree
  idToCluster,      \* Drain.idToCluster: the LRU cache, oldest entry first
  clustersCounter,  \* Drain.clustersCounter
  panicked,         \* a call has panicked: the process is gone
  lines,            \* the caller's list of lines to train (main), if it has one
  trainCalls,       \* history: the number of Train calls made
  matchCalls,       \* history: the number of Match calls counted by the caller
  assigned,         \* history: per cluster id, the Train calls given to it
  lastCall          \* history: the last call, its input and its result; for
                    \* a Match, follows is the id returned by a Train of the
                    \* same tokens that came right before it (or 0)

vars == <<config, rootNode, idToCluster, clustersCounter, panicked, lines,
          trainCalls, matchCalls, assigned, lastCall>>

(***************************************************************************)
(* Characters and the regular expressions of the parameter patterns.       *)
(***************************************************************************)
Digits == {"0", "1", "2", "3", "4", "5", "6", "7", "8", "9"}

LowerLetters ==
  {"a", "b", "c", "d", "e", "f", "g", "h", "i", "j", "k", "l", "m",
   "n", "o", "p", "q", "r", "s", "t", "u", "v", "w", "x", "y", "z"}

UpperLetters ==
  {"A", "B", "C", "D", "E", "F", "G", "H", "I", "J", "K", "L", "M",
   "N", "O", "P", "Q", "R", "S", "T", "U", "V", "W", "X", "Y", "Z"}

HexDigits == Digits \cup {"a", "b", "c", "d", "e", "f", "A", "B", "C", "D", "E", "F"}

WordChars == Digits \cup LowerLetters \cup UpperLetters \cup {"_"}

WhiteSpace == {" ", "\t", "\n", "\r"}

AllIn(s, class) == \A i \in 1..Len(s) : s[i] \in class

\* strings.Split(s, sep) for a one-character separator: the pieces between
\* the separators, empty pieces kept; one (empty) piece for the empty string.
RECURSIVE Split(_, _)
Split(s, sep) ==
  IF \A i \in 1..Len(s) : s[i] # sep
  THEN <<s>>
  ELSE LET i == CHOOSE k \in 1..Len(s) :
                  s[k] = sep /\ \A j \in 1..(k - 1) : s[j] # sep
       IN  <<SubSeq(s, 1, i - 1)>> \o Split(SubSeq(s, i + 1, Len(s)), sep)

\* strings.TrimSpace
RECURSIVE TrimSpace(_)
TrimSpace(s) ==
  IF s = <<>> THEN s
  ELSE IF s[1] \in WhiteSpace THEN TrimSpace(Tail(s))
  ELSE IF s[Len(s)] \in WhiteSpace THEN TrimSpace(SubSeq(s, 1, Len(s) - 1))
  ELSE s

\* ^([0-9]{1,3}\.[0-9]{1,3}\.[0-9]{1,3}\.[0-9]{1,3})$
MatchIP(s) ==
  LET parts == Split(s, ".")
  IN  /\ Len(parts) = 4
      /\ \A i \in 1..4 : Len(parts[i]) \in 1..3 /\ AllIn(parts[i], Digits)

\* ^0x([0-9a-fA-F]{1,8})$
MatchHex(s) ==
  /\ Len(s) \in 3..10
  /\ s[1] = "0"
  /\ s[2] = "x"
  /\ AllIn(SubSeq(s, 3, Len(s)), HexDigits)

\* ^\w+$
MatchWord(s) == Len(s) >= 1 /\ AllIn(s, WordChars)

\* ^[a-zA-Z]+$
MatchLetters(s) == Len(s) >= 1 /\ AllIn(s, LowerLetters \cup UpperLetters)

\* regexp.MatchString for the patterns a configuration can hold; ".*" (the
\* pattern of DefaultConfig) is unanchored and matches every string.
MatchString(pattern, s) ==
  CASE pattern = "ip"      -> MatchIP(s)
    [] pattern = "hex"     -> MatchHex(s)
    [] pattern = "word"    -> MatchWord(s)
    [] pattern = "letters" -> MatchLetters(s)
    [] pattern = "any"     -> TRUE

\* strconv.Itoa for n >= 0
DigitChar == <<"0", "1", "2", "3", "4", "5", "6", "7", "8", "9">>

\* mutant: every number is written "1"
ItoaOne(n) == <<"1">>

RECURSIVE Itoa(_)
Itoa(n) ==
  IF n < 10 THEN <<DigitChar[n + 1]>>
  ELSE Itoa(n \div 10) \o <<DigitChar[(n % 10) + 1]>>

(***************************************************************************)
(* Tokenizers.                                                             *)
(***************************************************************************)
SpaceTokenizer(content) == Split(TrimSpace(content), " ")

\* A caller-supplied tokenizer (Config.Tokenizer is any function): the
\* non-empty fields of the line, none for a blank line.
FieldsTokenizer(content) ==
  SelectSeq(Split(TrimSpace(content), " "), LAMBDA t : t # <<>>)

Tokenizer(cfg, content) ==
  IF cfg.Tokenizer = "SpaceTokenizer" THEN SpaceTokenizer(content)
  ELSE FieldsTokenizer(content)

(***************************************************************************)
(* The cluster cache: simplelru, as the sequence of its entries from the   *)
(* least to the most recently used (the order of Keys()).                  *)
(***************************************************************************)
MaxInt == 2147483647

nil == [tokens |-> <<>>, id |-> 0, size |-> 0]

Has(cache, key) == \E i \in 1..Len(cache) : cache[i].id = key

IndexOf(cache, key) == CHOOSE i \in 1..Len(cache) : cache[i].id = key

Peek(cache, key) == IF Has(cache, key) THEN cache[IndexOf(cache, key)] ELSE nil

Remove(cache, key) == SelectSeq(cache, LAMBDA c : c.id # key)

\* mutant: MaxClusters is ignored, the cache never evicts
createClusterCacheUnbounded(maxSize) == MaxInt

\* createClusterCache: the capacity of the LRU
createClusterCache(maxSize) == IF maxSize = 0 THEN MaxInt ELSE maxSize

\* ClusterCache.Values: the clusters, oldest first, recency untouched
Values(cache) == cache

\* mutant: on overflow the entry next to the least recently used one goes
ClusterCacheSetEvictSecond(cache, key, cluster, size) ==
  LET added == Append(Remove(cache, key), cluster)
  IN  IF Len(added) > size THEN <<Head(added)>> \o Tail(Tail(added)) ELSE added

\* ClusterCache.Set -> simplelru Add: refresh or insert as most recently
\* used, then evict the least recently used entry on overflow.
ClusterCacheSet(cache, key, cluster, size) ==
  LET added == Append(Remove(cache, key), cluster)
  IN  IF Len(added) > size THEN Tail(added) ELSE added

\* ClusterCache.Get -> simplelru Get: the entry becomes the most recently
\* used one; nil for a key the cache does not hold.
ClusterCacheGet(cache, key) ==
  IF Has(cache, key)
  THEN [cache |-> Append(Remove(cache, key), Peek(cache, key)),
        cluster |-> Peek(cache, key)]
  ELSE [cache |-> cache, cluster |-> nil]

\* mutant: the update is made on a copy of the cluster and lost
StoreLost(cache, cluster) == cache

\* a write through the cluster pointer: the entry changes in place
Store(cache, cluster) ==
  [i \in 1..Len(cache) |-> IF cache[i].id = cluster.id THEN cluster ELSE cache[i]]

(***************************************************************************)
(* Configuration.  A configuration is a record with the fields of Config;  *)
(* ParamPatterns maps a label to the name of its pattern, SimTh is the     *)
(* fraction <<numerator, denominator>>.                                    *)
(***************************************************************************)
LabelIP == <<"{", "i", "p", "}">>

LabelHex == <<"{", "h", "e", "x", "}">>

LabelName == <<"{", "n", "a", "m", "e", "}">>

LabelStar == <<"*">>

\* DefaultConfig
DefaultConfig ==
  [ClusterDepth  |-> 4,
   SimTh         |-> <<4, 10>>,
   MaxChildren   |-> 100,
   MaxClusters   |-> 0,
   ParamPatterns |-> (LabelStar :> "any"),
   Tokenizer     |-> "SpaceTokenizer"]

\* NewConfig: the defaults with the tokenizer and the patterns replaced
NewConfig(tokenizer, paramPatterns) ==
  [DefaultConfig EXCEPT !.Tokenizer = tokenizer, !.ParamPatterns = paramPatterns]

\* New: maxNodeDepth = ClusterDepth - 2
maxNodeDepth(cfg) == cfg.ClusterDepth - 2

\* the patterns of the example programme (main, \w+ for {name})
ExamplePatterns ==
  (LabelIP :> "ip") @@ (LabelHex :> "hex") @@ (LabelName :> "word")

\* the patterns of the README example ([a-zA-Z]+ for {name})
ReadmePatterns ==
  (LabelIP :> "ip") @@ (LabelHex :> "hex") @@ (LabelName :> "letters")

(***************************************************************************)
(* The parameter classifier.                                               *)
(***************************************************************************)
\* Drain.hasNumbers
hasNumbers(s) == \E i \in 1..Len(s) : s[i] \in Digits

\* Drain.getParamString: the labels a call can return.  The loop ranges
\* over a Go map, whose iteration order is unspecified and differs from one
\* range statement to the next, so the first accepting label it meets is
\* any accepting label; "" (the empty string) when no pattern accepts.
getParamString(cfg, token) ==
  LET accepting == {l \in DOMAIN cfg.ParamPatterns :
                      MatchString(cfg.ParamPatterns[l], token)}
  IN  IF accepting = {} THEN {<<>>} ELSE accepting

(***************************************************************************)
(* Similarity and template update.                                         *)
(***************************************************************************)
\* comparisons of fractions with positive denominators; a float64 quotient
\* of two small integers compares with 0.4 and 1.0 as the exact fraction
\* mutant: a later candidate with an equal similarity replaces the best
GtOrEq(a, b) == a[1] * b[2] >= b[1] * a[2]

Gt(a, b) == a[1] * b[2] > b[1] * a[2]

Eq(a, b) == a[1] * b[2] = b[1] * a[2]

Geq(a, b) == a[1] * b[2] >= b[1] * a[2]

\* mutant: includeParams is ignored, placeholders never count as similar
getSeqDistanceNoParams(cfg, seq1, seq2, includeParams) ==
  IF Len(seq1) # Len(seq2)
  THEN [panic |-> TRUE, sim |-> <<0, 1>>, paramCount |-> 0]
  ELSE LET isParam(i) == seq1[i] \in DOMAIN cfg.ParamPatterns
       IN  [panic      |-> FALSE,
            sim        |-> <<Cardinality({i \in 1..Len(seq1) :
                                           ~isParam(i) /\ seq1[i] = seq2[i]}),
                             Len(seq1)>>,
            paramCount |-> Cardinality({i \in 1..Len(seq1) : isParam(i)})]

\* Drain.getSeqDistance: panics on sequences of different lengths
getSeqDistance(cfg, seq1, seq2, includeParams) ==
  IF Len(seq1) # Len(seq2)
  THEN [panic |-> TRUE, sim |-> <<0, 1>>, paramCount |-> 0]
  ELSE LET isParam(i) == seq1[i] \in DOMAIN cfg.ParamPatterns
           paramCount == Cardinality({i \in 1..Len(seq1) : isParam(i)})
           simTokens  == Cardinality({i \in 1..Len(seq1) :
                                        ~isParam(i) /\ seq1[i] = seq2[i]})
       IN  [panic      |-> FALSE,
            sim        |-> <<IF includeParams THEN simTokens + paramCount
                                              ELSE simTokens, Len(seq1)>>,
            paramCount |-> paramCount]

\* Drain.createTemplate(source, target): the templates a call can return;
\* a position where source and target differ takes getParamString(source[i])
RECURSIVE createTemplateFrom(_, _, _, _)
createTemplateFrom(cfg, source, target, i) ==
  IF i > Len(target) THEN {<<>>}
  ELSE LET heads == IF source[i] # target[i]
                    THEN getParamString(cfg, source[i])
                    ELSE {target[i]}
       IN  {<<h>> \o rest : h \in heads,
                            rest \in createTemplateFrom(cfg, source, target, i + 1)}

\* mutant: a position where source and target differ takes the label of
\* the target's (the old template's) token
RECURSIVE createTemplateOfTargetFrom(_, _, _, _)
createTemplateOfTargetFrom(cfg, source, target, i) ==
  IF i > Len(target) THEN {<<>>}
  ELSE LET heads == IF source[i] # target[i]
                    THEN getParamString(cfg, target[i])
                    ELSE {target[i]}
       IN  {<<h>> \o rest : h \in heads,
                            rest \in createTemplateOfTargetFrom(cfg, source, target, i + 1)}

createTemplateOfTarget(cfg, source, target) ==
  createTemplateOfTargetFrom(cfg, source, target, 1)

\* mutant: the new template loses its last token
createTemplateShort(cfg, source, target) ==
  {SubSeq(t, 1, Len(t) - 1) : t \in createTemplateFrom(cfg, source, target, 1)}

createTemplate(cfg, source, target) == createTemplateFrom(cfg, source, target, 1)

(***************************************************************************)
(* The prefix tree: a function from the path of a node (the keys from the  *)
(* root) to the node's clusterIDs; a node exists iff its path is in the    *)
(* domain.                                                                 *)
(***************************************************************************)
\* createNode, for the root
createNode == (<<>> :> <<>>)

hasChild(tree, node, key) == Append(node, key) \in DOMAIN tree

\* the keys of node.keyToChildNode
keyToChildNode(tree, node) ==
  {p[Len(p)] : p \in {q \in DOMAIN tree :
                        Len(q) = Len(node) + 1 /\ SubSeq(q, 1, Len(node)) = node}}

\* createNode, installed as node.keyToChildNode[key]
addChild(tree, node, key) == tree @@ (Append(node, key) :> <<>>)

\* Drain.fastMatch, the loop over the bucket: every candidate is looked up
\* with ClusterCache.Get
RECURSIVE fastMatchLoop(_, _, _, _, _, _, _, _)
fastMatchLoop(cfg, cache, clusterIDs, tokens, includeParams, maxSim, maxParamCount, maxCluster) ==
  IF clusterIDs = <<>>
  THEN [panic |-> FALSE, cache |-> cache, maxSim |-> maxSim, maxCluster |-> maxCluster]
  ELSE LET g == ClusterCacheGet(cache, Head(clusterIDs))
       IN  IF g.cluster = nil
           THEN fastMatchLoop(cfg, g.cache, Tail(clusterIDs), tokens, includeParams,
                              maxSim, maxParamCount, maxCluster)
           ELSE LET d == getSeqDistance(cfg, g.cluster.tokens, tokens, includeParams)
                IN  IF d.panic
                    THEN [panic |-> TRUE, cache |-> g.cache,
                          maxSim |-> maxSim, maxCluster |-> maxCluster]
                    ELSE IF \/ Gt(d.sim, maxSim)
                            \/ (Eq(d.sim, maxSim) /\ d.paramCount > maxParamCount)
                    THEN fastMatchLoop(cfg, g.cache, Tail(clusterIDs), tokens,
                                       includeParams, d.sim, d.paramCount, g.cluster)
                    ELSE fastMatchLoop(cfg, g.cache, Tail(clusterIDs), tokens,
                                       includeParams, maxSim, maxParamCount, maxCluster)

\* Drain.fastMatch
fastMatch(cfg, cache, clusterIDs, tokens, simTh, includeParams) ==
  LET r == fastMatchLoop(cfg, cache, clusterIDs, tokens, includeParams,
                         <<-1, 1>>, -1, nil)
  IN  [panic   |-> r.panic,
       cache   |-> r.cache,
       cluster |-> IF ~r.panic /\ Geq(r.maxSim, simTh) THEN r.maxCluster ELSE nil]

\* Drain.treeSearch, the descent: the nodes the loop can stop at (found),
\* or the node at which neither the token nor its label has a child
RECURSIVE searchDescend(_, _, _, _, _)
searchDescend(cfg, tree, tokens, curNode, curNodeDepth) ==
  IF curNodeDepth >= maxNodeDepth(cfg) \/ curNodeDepth = Len(tokens)
  THEN {[found |-> TRUE, node |-> curNode]}
  ELSE LET token == tokens[curNodeDepth]
       IN  IF hasChild(tree, curNode, token)
           THEN searchDescend(cfg, tree, tokens, Append(curNode, token),
                              curNodeDepth + 1)
           ELSE UNION {IF hasChild(tree, curNode, p)
                       THEN searchDescend(cfg, tree, tokens, Append(curNode, p),
                                          curNodeDepth + 1)
                       ELSE {[found |-> FALSE, node |-> curNode]}
                       : p \in getParamString(cfg, token)}

\* Drain.treeSearch: the results a call can have
treeSearch(cfg, tree, cache, tokens, simTh, includeParams) ==
  LET first == <<Itoa(Len(tokens))>>
      none  == [panic |-> FALSE, cache |-> cache, cluster |-> nil]
  IN  IF first \notin DOMAIN tree THEN {none @@ [node |-> <<>>]}
      ELSE IF Len(tokens) = 0
      THEN IF tree[first] = <<>>
           THEN {[panic |-> TRUE, cache |-> cache, cluster |-> nil, node |-> first]}
           ELSE {[panic |-> FALSE, node |-> first]
                 @@ ClusterCacheGet(cache, tree[first][1])}
      ELSE {IF l.found
            THEN fastMatch(cfg, cache, tree[l.node], tokens, simTh, includeParams)
                 @@ [node |-> l.node]
            ELSE none @@ [node |-> <<>>]
            : l \in searchDescend(cfg, tree, tokens, first, 1)}

\* Drain.addSeqToPrefixTree, the clean-up of a leaf: the ids that are still
\* in the cache, each looked up with ClusterCache.Get
RECURSIVE pruneLoop(_, _, _)
pruneLoop(cache, clusterIDs, newClusterIDs) ==
  IF clusterIDs = <<>> THEN [cache |-> cache, newClusterIDs |-> newClusterIDs]
  ELSE LET g == ClusterCacheGet(cache, Head(clusterIDs))
       IN  pruneLoop(g.cache, Tail(clusterIDs),
                     IF g.cluster # nil THEN Append(newClusterIDs, Head(clusterIDs))
                                        ELSE newClusterIDs)

\* Drain.addSeqToPrefixTree, the loop over the tokens.  Descending into a
\* child that does not exist makes curNode nil, and the next iteration
\* dereferences it: a panic, with the nodes created so far left in the tree.
RECURSIVE addDescend(_, _, _, _, _, _)
addDescend(cfg, tree, cache, cluster, curNode, currentDepth) ==
  IF currentDepth >= maxNodeDepth(cfg) \/ currentDepth >= Len(cluster.tokens)
  THEN LET pr == pruneLoop(cache, tree[curNode], <<>>)
       IN  {[panic    |-> FALSE,
             rootNode |-> [tree EXCEPT ![curNode] = Append(pr.newClusterIDs, cluster.id)],
             cache    |-> pr.cache,
             node     |-> curNode]}
  ELSE LET token == cluster.tokens[currentDepth]
           k == Cardinality(keyToChildNode(tree, curNode))
           create(key) == addDescend(cfg, addChild(tree, curNode, key), cache, cluster,
                                     Append(curNode, key), currentDepth + 1)
           into(key) == IF hasChild(tree, curNode, key)
                        THEN addDescend(cfg, tree, cache, cluster,
                                        Append(curNode, key), currentDepth + 1)
                        ELSE {[panic |-> TRUE, rootNode |-> tree, cache |-> cache,
                               node |-> <<>>]}
           step(paramString) ==
             IF ~hasNumbers(token)
             THEN IF hasChild(tree, curNode, paramString)
                  THEN IF k < cfg.MaxChildren THEN create(token)
                       ELSE into(paramString)
                  ELSE IF k + 1 < cfg.MaxChildren THEN create(token)
                       ELSE IF k + 1 = cfg.MaxChildren THEN create(paramString)
                       ELSE into(paramString)
             ELSE IF ~hasChild(tree, curNode, paramString) THEN create(paramString)
                  ELSE into(paramString)
       IN  IF ~hasChild(tree, curNode, token)
           THEN UNION {step(p) : p \in getParamString(cfg, token)}
           ELSE into(token)

\* Drain.addSeqToPrefixTree: the results a call can have; node is the leaf
\* that received the id
addSeqToPrefixTree(cfg, tree, cache, cluster) ==
  LET firstLayerNode == <<Itoa(Len(cluster.tokens))>>
      tree1 == IF firstLayerNode \in DOMAIN tree THEN tree
               ELSE addChild(tree, <<>>, Itoa(Len(cluster.tokens)))
  IN  IF Len(cluster.tokens) = 0
      THEN {[panic    |-> FALSE,
             rootNode |-> [tree1 EXCEPT ![firstLayerNode] = Append(@, cluster.id)],
             cache    |-> cache,
             node     |-> firstLayerNode]}
      ELSE addDescend(cfg, tree1, cache, cluster, firstLayerNode, 1)

(***************************************************************************)
(* Train and Match.                                                        *)
(***************************************************************************)
\* mutant: the counter stops at 1, every new cluster takes the id 1
nextClusterIDStuck(counter) == 1

\* Drain.Train: d.clustersCounter++, the id of the next new cluster
nextClusterID(counter) == counter + 1

\* Drain.Train: the results a call can have.  old is the template of the
\* matched cluster before the update, node the leaf of the returned cluster.
trainResults(cfg, tree, cache, counter, content) ==
  LET contentTokens == Tokenizer(cfg, content)
      size == createClusterCache(cfg.MaxClusters)
      base == [tokens |-> contentTokens, node |-> <<>>, old |-> <<>>,
               created |-> FALSE, id |-> 0, panic |-> FALSE,
               rootNode |-> tree, cache |-> cache, counter |-> counter]
      miss(s) ==
        LET clusterID == nextClusterID(counter)
            matchCluster == [tokens |-> contentTokens, id |-> clusterID, size |-> 1]
        IN  {[base EXCEPT !.created = TRUE, !.counter = clusterID,
                          !.id = IF a.panic THEN 0 ELSE clusterID,
                          !.panic = a.panic, !.rootNode = a.rootNode,
                          !.cache = a.cache, !.node = a.node]
             : a \in addSeqToPrefixTree(cfg, tree,
                       ClusterCacheSet(s.cache, clusterID, matchCluster, size),
                       matchCluster)}
      hit(s) ==
        IF Len(contentTokens) # Len(s.cluster.tokens)
        THEN {[base EXCEPT !.panic = TRUE, !.cache = s.cache, !.node = s.node]}
        ELSE {[base EXCEPT !.id = s.cluster.id, !.node = s.node,
                           !.old = s.cluster.tokens,
                           !.cache = ClusterCacheGet(
                               Store(s.cache, [s.cluster EXCEPT
                                                 !.tokens = newTemplateTokens,
                                                 !.size = @ + 1]),
                               s.cluster.id).cache]
              : newTemplateTokens \in createTemplate(cfg, contentTokens,
                                                     s.cluster.tokens)}
  IN  UNION {IF s.panic THEN {[base EXCEPT !.panic = TRUE, !.cache = s.cache]}
             ELSE IF s.cluster = nil THEN miss(s)
             ELSE hit(s)
             : s \in treeSearch(cfg, tree, cache, contentTokens, cfg.SimTh, FALSE)}

\* mutant: Match searches with the training threshold SimTh
matchResultsSimTh(cfg, tree, cache, content) ==
  LET contentTokens == Tokenizer(cfg, content)
  IN  {[tokens |-> contentTokens, node |-> s.node, old |-> <<>>,
        created |-> FALSE, id |-> s.cluster.id, panic |-> s.panic,
        cache |-> s.cache]
       : s \in treeSearch(cfg, tree, cache, contentTokens, cfg.SimTh, TRUE)}

\* Drain.Match: the results a call can have
matchResults(cfg, tree, cache, content) ==
  LET contentTokens == Tokenizer(cfg, content)
  IN  {[tokens |-> contentTokens, node |-> s.node, old |-> <<>>,
        created |-> FALSE, id |-> s.cluster.id, panic |-> s.panic,
        cache |-> s.cache]
       : s \in treeSearch(cfg, tree, cache, contentTokens, <<1, 1>>, TRUE)}

\* Drain.Clusters
Clusters == Values(idToCluster)

\* New(config)
New(cfg) ==
  /\ config = cfg
  /\ rootNode = createNode
  /\ idToCluster = <<>>
  /\ clustersCounter = 0
  /\ panicked = FALSE
  /\ trainCalls = 0
  /\ matchCalls = 0
  /\ assigned = <<>>
  /\ lastCall = [op |-> "New", tokens |-> <<>>, node |-> <<>>, old |-> <<>>,
                 created |-> FALSE, id |-> 0, follows |-> 0]

\* a call of Train(content)
Train(content) ==
  /\ ~panicked
  /\ \E r \in trainResults(config, rootNode, idToCluster, clustersCounter, content) :
       /\ rootNode' = r.rootNode
       /\ idToCluster' = r.cache
       /\ clustersCounter' = r.counter
       /\ panicked' = r.panic
       /\ assigned' = IF r.created THEN Append(assigned, 1)
                      ELSE IF r.id # 0 THEN [assigned EXCEPT ![r.id] = @ + 1]
                      ELSE assigned
       /\ lastCall' = [op |-> "Train", tokens |-> r.tokens, node |-> r.node,
                       old |-> r.old, created |-> r.created, id |-> r.id,
                       follows |-> 0]
  /\ trainCalls' = trainCalls + 1
  /\ UNCHANGED <<config, lines, matchCalls>>

\* a call of Match(content)
Match(content) ==
  /\ ~panicked
  /\ \E r \in matchResults(config, rootNode, idToCluster, content) :
       /\ idToCluster' = r.cache
       /\ panicked' = r.panic
       /\ lastCall' = [op |-> "Match", tokens |-> r.tokens, node |-> r.node,
                       old |-> r.old, created |-> r.created, id |-> r.id,
                       follows |-> IF lastCall.op = "Train" /\ lastCall.tokens = r.tokens
                                   THEN lastCall.id ELSE 0]
  /\ UNCHANGED <<config, rootNode, clustersCounter, lines, trainCalls, assigned>>

(***************************************************************************)
(* The example programme (main) and the scenarios around it: a caller that *)
(* trains a fixed list of lines in order and matches probe lines.          *)
(***************************************************************************)
LineConnected1 ==
  <<"c", "o", "n", "n", "e", "c", "t", "e", "d", " ", "t", "o", " ", "1",
    "0", ".", "0", ".", "0", ".", "1">>

LineConnected2 ==
  <<"c", "o", "n", "n", "e", "c", "t", "e", "d", " ", "t", "o", " ", "1",
    "0", ".", "0", ".", "0", ".", "2">>

LineConnected3 ==
  <<"c", "o", "n", "n", "e", "c", "t", "e", "d", " ", "t", "o", " ", "1",
    "0", ".", "0", ".", "0", ".", "3">>

LineHexDeadbeaf ==
  <<"H", "e", "x", " ", "n", "u", "m", "b", "e", "r", " ", "0", "x", "D",
    "E", "A", "D", "B", "E", "A", "F">>

LineHex10000 ==
  <<"H", "e", "x", " ", "n", "u", "m", "b", "e", "r", " ", "0", "x", "1",
    "0", "0", "0", "0">>

LineUserDavidoh ==
  <<"u", "s", "e", "r", " ", "d", "a", "v", "i", "d", "o", "h", " ", "l",
    "o", "g", "g", "e", "d", " ", "i", "n">>

LineUserEranr ==
  <<"u", "s", "e", "r", " ", "e", "r", "a", "n", "r", " ", "l", "o", "g",
    "g", "e", "d", " ", "i", "n">>

LineUserFaceair ==
  <<"u", "s", "e", "r", " ", "f", "a", "c", "e", "a", "i", "r", " ", "l",
    "o", "g", "g", "e", "d", " ", "i", "n">>

LineUser123 ==
  <<"u", "s", "e", "r", " ", "1", "2", "3", " ", "l", "o", "g", "g", "e",
    "d", " ", "i", "n">>

LineConnected4 ==
  <<"c", "o", "n", "n", "e", "c", "t", "e", "d", " ", "t", "o", " ", "1",
    "0", ".", "0", ".", "0", ".", "4">>

LineUserIP ==
  <<"u", "s", "e", "r", " ", "1", "0", ".", "0", ".", "0", ".", "4", " ",
    "l", "o", "g", "g", "e", "d", " ", "i", "n">>

LineHexFirst == <<"0", "x", "1", "0", "0", "0", "0", " ", "i", "s", " ", "H", "e", "x">>

\* main: the lines of the example, in order
ExampleLines ==
  <<LineConnected1, LineConnected2, LineConnected3, LineHexDeadbeaf,
    LineHex10000, LineUserDavidoh, LineUserEranr>>

\* the eviction scenario: the first five lines, then a fourth address
EvictionLines ==
  <<LineConnected1, LineConnected2, LineConnected3, LineHexDeadbeaf,
    LineHex10000, LineConnected4>>

ProbeLines == {LineUserFaceair, LineUser123, LineConnected4, LineUserIP}

MainConfigs ==
  {[NewConfig("SpaceTokenizer", pp) EXCEPT !.MaxClusters = mc]
   : pp \in {ExamplePatterns, ReadmePatterns}, mc \in {0, 1, 2}}

\* a caller that trains one line again and again
MaxRepeat == 3

RepeatLines ==
  {LineConnected1, LineHex10000, LineUserDavidoh, LineUser123, LineHexFirst}

RepeatLists == {[i \in 1..MaxRepeat |-> content] : content \in RepeatLines}

InitMain ==
  \E cfg \in MainConfigs, ls \in {ExampleLines, EvictionLines} \cup RepeatLists :
    New(cfg) /\ lines = ls

\* the loop of main: Train the next line of the list
MainTrain == trainCalls < Len(lines) /\ Train(lines[trainCalls + 1])

MainMatch == UNCHANGED matchCalls /\ \E content \in ProbeLines : Match(content)

NextMain == MainTrain \/ MainMatch

SpecMain == InitMain /\ [][NextMain]_vars

(***************************************************************************)
(* Any caller: Train and Match in any order on the lines of a corpus, for  *)
(* several configurations.  The tokens of the corpus: a, b (letters), 7    *)
(* (a digit, a word), 0x1 (a digit; hex and a word), 1- (a digit, accepted *)
(* by no example pattern), - (no digit, accepted by no example pattern).   *)
(***************************************************************************)
CorpusAB == <<"a", " ", "b">>

CorpusA7 == <<"a", " ", "7">>

CorpusBA == <<"b", " ", "a">>

CorpusSevenA == <<"7", " ", "a">>

CorpusHexA == <<"0", "x", "1", " ", "a">>

CorpusOneDashB == <<"1", "-", " ", "b">>

CorpusDashA == <<"-", " ", "a">>

CorpusEmpty == <<>>

Corpus ==
  {CorpusAB, CorpusA7, CorpusBA, CorpusSevenA, CorpusHexA, CorpusOneDashB,
   CorpusDashA, CorpusEmpty}

\* a small tree and a small cache, with the patterns of the example
SmallConfig ==
  [NewConfig("SpaceTokenizer", ExamplePatterns) EXCEPT
     !.MaxChildren = 2, !.MaxClusters = 2]

\* the default patterns, a tokenizer that can yield no token
FieldsConfig == [DefaultConfig EXCEPT !.Tokenizer = "FieldsTokenizer"]

Configs == {SmallConfig, FieldsConfig}

MaxTrains == 3

MaxMatches == 2

Init == \E cfg \in Configs : New(cfg) /\ lines = <<>>

TrainStep == trainCalls < MaxTrains /\ \E content \in Corpus : Train(content)

MatchStep ==
  /\ matchCalls < MaxMatches
  /\ matchCalls' = matchCalls + 1
  /\ \E content \in Corpus : Match(content)

Next == TrainStep \/ MatchStep

Spec == Init /\ [][Next]_vars

(***************************************************************************)
(* Several clusters in one leaf: lines of four tokens whose first token    *)
(* holds a digit, so that all of them reach the leaf under the {name}      *)
(* child, and a line of one token for a second leaf.                       *)
(***************************************************************************)
Leaf_7bpp == <<"7", " ", "b", " ", "p", " ", "p">>

Leaf_7bqq == <<"7", " ", "b", " ", "0", "x", "2", " ", "0", "x", "2">>

Leaf_8bpq == <<"8", " ", "b", " ", "p", " ", "0", "x", "2">>

Leaf_7bpq == <<"7", " ", "b", " ", "p", " ", "0", "x", "2">>

Leaf_8cqq == <<"8", " ", "c", " ", "0", "x", "2", " ", "0", "x", "2">>

Leaf_a == <<"a">>

LeafCorpus == {Leaf_7bpp, Leaf_7bqq, Leaf_8bpq, Leaf_7bpq, Leaf_8cqq, Leaf_a}

LeafConfigs ==
  {[NewConfig("SpaceTokenizer", ExamplePatterns) EXCEPT !.MaxClusters = mc]
   : mc \in {0, 2}}

MaxLeafTrains == 4

InitLeaf == \E cfg \in LeafConfigs : New(cfg) /\ lines = <<>>

LeafTrain ==
  trainCalls < MaxLeafTrains /\ \E content \in LeafCorpus : Train(content)

LeafMatch ==
  /\ matchCalls < MaxMatches
  /\ matchCalls' = matchCalls + 1
  /\ \E content \in LeafCorpus : Match(content)

NextLeaf == LeafTrain \/ LeafMatch

SpecLeaf == InitLeaf /\ [][NextLeaf]_vars

(***************************************************************************)
(* Lines without tokens: a tokenizer that yields no token for a blank      *)
(* line, the default patterns and a bounded cache, so that the cluster of  *)
(* the blank lines can be evicted.                                         *)
(***************************************************************************)
ZeroBlank == <<" ">>

ZeroA == <<"a">>

ZeroAB == <<"a", " ", "b">>

ZeroB == <<"b">>

ZeroCorpus == {CorpusEmpty, ZeroBlank, ZeroA, ZeroAB, ZeroB}

ZeroConfigs == {[FieldsConfig EXCEPT !.MaxClusters = mc] : mc \in {1, 2}}

MaxZeroTrains == 4

InitZero == \E cfg \in ZeroConfigs : New(cfg) /\ lines = <<>>

ZeroTrain ==
  trainCalls < MaxZeroTrains /\ \E content \in ZeroCorpus : Train(content)

ZeroMatch ==
  /\ matchCalls < MaxMatches
  /\ matchCalls' = matchCalls + 1
  /\ \E content \in ZeroCorpus : Match(content)

NextZero == ZeroTrain \/ ZeroMatch

SpecZero == InitZero /\ [][NextZero]_vars

(***************************************************************************)
(* What the properties below speak of.                                     *)
(***************************************************************************)
Labels == DOMAIN config.ParamPatterns

Accepts(label, token) == MatchString(config.ParamPatterns[label], token)

RangeOf(seq) == {seq[i] : i \in 1..Len(seq)}

Ids(cache) == [i \in 1..Len(cache) |-> cache[i].id]

\* the leaf whose bucket holds the id
LeafOf(id) == CHOOSE node \in DOMAIN rootNode : id \in RangeOf(rootNode[node])

\* the ids of a bucket that resolve in the cache
LiveIn(node) == {id \in RangeOf(rootNode[node]) : Has(idToCluster, id)}

\* every position is literally equal or holds a placeholder label
PerfectFor(template, tokens) ==
  /\ Len(template) = Len(tokens)
  /\ \A i \in 1..Len(template) : template[i] = tokens[i] \/ template[i] \in Labels

\* every position is literally equal or holds a placeholder label whose
\* regex accepts the token
AcceptedBy(template, tokens) ==
  /\ Len(template) = Len(tokens)
  /\ \A i \in 1..Len(template) :
       \/ template[i] = tokens[i]
       \/ template[i] \in Labels /\ Accepts(template[i], tokens[i])

ParamCount(template) == Cardinality({i \in 1..Len(template) : template[i] \in Labels})

\* label is what the classifier can answer for the token
Classifies(label, token) ==
  \/ label \in Labels /\ Accepts(label, token)
  \/ label = <<>> /\ \A l \in Labels : ~Accepts(l, token)

RECURSIVE SumSizes(_)
SumSizes(cache) == IF cache = <<>> THEN 0 ELSE Head(cache).size + SumSizes(Tail(cache))

\* the Train calls that were given to clusters no longer in the cache
RECURSIVE EvictedCalls(_)
EvictedCalls(n) ==
  IF n = 0 THEN 0
  ELSE EvictedCalls(n - 1) + (IF Has(idToCluster, n) THEN 0 ELSE assigned[n])

MatchedTrain == lastCall.op = "Train" /\ ~lastCall.created /\ lastCall.id # 0

(***************************************************************************)
(* The properties.                                                         *)
(***************************************************************************)

C2_Case ==
  /\ lastCall.op = "Match"
  /\ lastCall.follows # 0
  /\ Has(idToCluster, lastCall.follows)
  /\ AcceptedBy(Peek(idToCluster, lastCall.follows).tokens, lastCall.tokens)

C3_SameLineOneCluster ==
  (lines \in RepeatLists /\ trainCalls >= 1) =>
    Clusters = <<[tokens |-> Tokenizer(config, lines[1]), id |-> 1,
                  size |-> trainCalls]>>

\* C4 as stated: a cluster returned by Match has the length of the line
\* and, at every position, the input token or a placeholder label whose
\* regex accepts the input token.
C4_MatchIsPerfect ==
  (lastCall.op = "Match" /\ lastCall.id # 0) =>
    AcceptedBy(Peek(idToCluster, lastCall.id).tokens, lastCall.tokens)

\* C4, amended: a cluster returned by Match is a live cluster of the leaf
\* reached, has the length of the line and, at every position, the input
\* token or a placeholder label (whatever the label's regex says of the
\* input token).
C4_MatchIsPerfectAmended ==
  (lastCall.op = "Match" /\ lastCall.id # 0) =>
    /\ lastCall.id \in LiveIn(lastCall.node)
    /\ PerfectFor(Peek(idToCluster, lastCall.id).tokens, lastCall.tokens)

\* Match returned a cluster with a placeholder at a position where the
\* input token differs from it
C4_Witness ==
  /\ lastCall.op = "Match"
  /\ lastCall.id # 0
  /\ \E i \in 1..Len(lastCall.tokens) :
       /\ Peek(idToCluster, lastCall.id).tokens[i] \in Labels
       /\ Peek(idToCluster, lastCall.id).tokens[i] # lastCall.tokens[i]

\* C5 as stated: after a Train that matched a cluster with template T on
\* tokens S, the new template keeps T[i] where T[i] = S[i] and holds the
\* classification of the old template token T[i] elsewhere.
C5_TemplateUpdate ==
  MatchedTrain =>
    LET T == lastCall.old
        S == lastCall.tokens
        Tnew == Peek(idToCluster, lastCall.id).tokens
    IN  /\ Len(Tnew) = Len(T)
        /\ \A i \in 1..Len(T) :
             IF T[i] = S[i] THEN Tnew[i] = T[i]
             ELSE Tnew[i] \in getParamString(config, T[i])

\* C5, amended: the new template keeps T[i] where T[i] = S[i] and holds
\* the classification of the incoming token S[i] elsewhere: a label whose
\* regex accepts S[i], or the empty string when no regex accepts it.
C5_TemplateUpdateAmended ==
  MatchedTrain =>
    LET T == lastCall.old
        S == lastCall.tokens
        Tnew == Peek(idToCluster, lastCall.id).tokens
    IN  /\ Len(Tnew) = Len(T)
        /\ \A i \in 1..Len(T) :
             IF T[i] = S[i] THEN Tnew[i] = T[i]
             ELSE Classifies(Tnew[i], S[i])

\* a Train matched a cluster whose template differs from the tokens
C5_Witness ==
  /\ MatchedTrain
  /\ \E i \in 1..Len(lastCall.old) : lastCall.old[i] # lastCall.tokens[i]

\* C6 as stated: every node whose children are keyed by tokens or labels
\* has at most MaxChildren children.
C6_FanOutCap ==
  \A node \in DOMAIN rootNode :
    Len(node) >= 1 =>
      Cardinality(keyToChildNode(rootNode, node)) <= config.MaxChildren

\* C7: the sizes of the cached clusters add up to the number of Train
\* calls minus the Train calls given to clusters evicted since; with
\* MaxClusters = 0 they add up to the number of Train calls.
C7_SizeAccounting ==
  /\ SumSizes(idToCluster) = trainCalls - EvictedCalls(Len(assigned))
  /\ config.MaxClusters = 0 => SumSizes(idToCluster) = trainCalls

\* a cluster has been evicted, another one is cached
C7_Witness ==
  /\ \E id \in 1..Len(assigned) : ~Has(idToCluster, id)
  /\ idToCluster # <<>>
  /\ trainCalls >= 3

\* C8 as stated: a Train that matches cluster W leaves the recency order
\* of the other cached clusters as it was.
C8_ScanKeepsOrder ==
  [][(lastCall'.op = "Train" /\ ~lastCall'.created /\ lastCall'.id # 0) =>
       Ids(Remove(idToCluster', lastCall'.id)) =
       Ids(Remove(idToCluster, lastCall'.id))]_vars

TemplateConnected == Split(<<"c", "o", "n", "n", "e", "c", "t", "e", "d", " ", "t", "o", " ", "{", "i", "p", "}">>, " ")

TemplateHex == Split(<<"H", "e", "x", " ", "n", "u", "m", "b", "e", "r", " ", "{", "h", "e", "x", "}">>, " ")

TemplateUser == Split(<<"u", "s", "e", "r", " ", "{", "n", "a", "m", "e", "}", " ", "l", "o", "g", "g", "e", "d", " ", "i", "n">>, " ")

\* C9 as stated: the example programme ends with clusters 1 (size 3,
\* connected to {ip}), 2 (size 2, Hex number {hex}) and 3 (size 2,
\* user {name} logged in), and Match("user faceair logged in") then
\* returns cluster 3.
C9_Example ==
  (/\ lines = ExampleLines
   /\ config = NewConfig("SpaceTokenizer", ExamplePatterns)
   /\ trainCalls = 7) =>
    /\ RangeOf(Clusters) =
         {[tokens |-> TemplateConnected, id |-> 1, size |-> 3],
          [tokens |-> TemplateHex, id |-> 2, size |-> 2],
          [tokens |-> TemplateUser, id |-> 3, size |-> 2]}
    /\ Len(Clusters) = 3
    /\ (lastCall.op = "Match" /\ lastCall.tokens = SpaceTokenizer(LineUserFaceair))
       => lastCall.id = 3

\* the scenario of C10: MaxClusters = 1, the eviction scenario's lines
C10_Scenario == lines = EvictionLines /\ config.MaxClusters = 1

\* after the five lines cluster 1 is gone and Match of the fourth address
\* returns none; the Train of it creates a cluster of size 1
C10_Common ==
  /\ trainCalls >= 5 => ~Has(idToCluster, 1)
  /\ (/\ trainCalls = 5
      /\ lastCall.op = "Match"
      /\ lastCall.tokens = SpaceTokenizer(LineConnected4)) => lastCall.id = 0
  /\ (trainCalls = 6 /\ lastCall.op = "Train") =>
       /\ lastCall.created
       /\ Has(idToCluster, lastCall.id)
       /\ Peek(idToCluster, lastCall.id).size = 1
       /\ Peek(idToCluster, lastCall.id).tokens = SpaceTokenizer(LineConnected4)

\* C10 as stated: ... and the id of the new cluster is >= 4.
C10_Eviction ==
  C10_Scenario =>
    /\ C10_Common
    /\ (trainCalls = 6 /\ lastCall.op = "Train") => lastCall.id >= 4

\* C10, amended: ... and the id of the new cluster is 3, the next after
\* the two ids allocated before.
C10_EvictionAmended ==
  C10_Scenario =>
    /\ C10_Common
    /\ (trainCalls = 6 /\ lastCall.op = "Train") => lastCall.id = 3

\* the fourth address has been trained after the five lines
C10_Witness == C10_Scenario /\ trainCalls = 6 /\ lastCall.op = "Train"

IdSet(cache) == {cache[i].id : i \in 1..Len(cache)}

\* the first-level node of the lines without tokens
ZeroNode == <<<<"0">>>>

\* a cluster without tokens is in the cache
ZeroCached(cache) == \E i \in 1..Len(cache) : cache[i].tokens = <<>>

\* C11 as stated: the bucket of the first-level node for length 0 holds at
\* most one cluster id, and a Train of a line without tokens, issued while
\* a cluster without tokens is in the cache, matches that cluster instead
\* of creating another one.
C11_ZeroTokenSingle ==
  /\ [](ZeroNode \in DOMAIN rootNode => Len(rootNode[ZeroNode]) <= 1)
  /\ [][(/\ lastCall'.op = "Train"
         /\ lastCall'.tokens = <<>>
         /\ ZeroCached(idToCluster)) =>
          /\ ~lastCall'.created
          /\ Peek(idToCluster, lastCall'.id).tokens = <<>>]_vars

\* the tokens of the lines of the corpus
CorpusTokens ==
  UNION {RangeOf(Tokenizer(config, content)) : content \in Corpus}

\* C12 as stated: the classifier has one answer for every token, and a
\* Train call has one outcome: the same tree and the same clusters for the
\* same line in the same state.
C12_Deterministic ==
  /\ \A token \in CorpusTokens : Cardinality(getParamString(config, token)) = 1
  /\ ~panicked =>
       \A content \in Corpus :
         Cardinality({<<r.rootNode, Values(r.cache)>> :
                        r \in trainResults(config, rootNode, idToCluster,
                                           clustersCounter, content)}) = 1

\* C13: the clusters of Clusters() have pairwise distinct ids, every id was
\* allocated (1..number of clusters created), and the k-th cluster created
\* has id k: 1 for the first, more than every id allocated before for the
\* others, evicted or not.
C13_ClusterIds ==
  /\ \A i, j \in 1..Len(Clusters) : i # j => Clusters[i].id # Clusters[j].id
  /\ IdSet(Clusters) \subseteq 1..Len(assigned)
  /\ clustersCounter = Len(assigned)
  /\ (lastCall.op = "Train" /\ lastCall.created) =>
       /\ clustersCounter >= 1
       /\ Has(idToCluster, clustersCounter)
       /\ ~panicked => lastCall.id = clustersCounter

\* a cluster was created after another one had been evicted
C13_Witness ==
  /\ lastCall.op = "Train"
  /\ lastCall.created
  /\ lastCall.id >= 3
  /\ \E id \in 1..(lastCall.id - 1) : ~Has(idToCluster, id)

\* C14: a step leaves the length of the template of every cluster that
\* stays in the cache as it was (so it is the length at creation), and the
\* template of the cluster a Train returns has as many tokens as the line.
C14_TemplateLength ==
  [][/\ \A id \in IdSet(idToCluster) \cap IdSet(idToCluster') :
          Len(Peek(idToCluster', id).tokens) = Len(Peek(idToCluster, id).tokens)
     /\ (lastCall'.op = "Train" /\ lastCall'.id # 0) =>
          Len(Peek(idToCluster', lastCall'.id).tokens) = Len(lastCall'.tokens)]_vars

\* a Train matched a cluster and changed its template
C14_Witness ==
  /\ MatchedTrain
  /\ Peek(idToCluster, lastCall.id).tokens # lastCall.old
  /\ Len(Peek(idToCluster, lastCall.id).tokens) = Len(lastCall.old)

C16_InsertionCompletes ==
  (lastCall.op = "Train" /\ lastCall.created) =>
    /\ ~panicked
    /\ lastCall.node \in DOMAIN rootNode
    /\ rootNode[lastCall.node] # <<>>
    /\ rootNode[lastCall.node][Len(rootNode[lastCall.node])] = lastCall.id

\* a caller that only trains the lines of the leaf corpus: the buckets and
\* caches on which the selection of a candidate is examined
NextScan == LeafTrain

SpecScan == InitLeaf /\ [][NextScan]_vars

\* the token sequences of the lines of the leaf corpus
LeafTokens == {Tokenizer(config, content) : content \in LeafCorpus}

\* similarity as the property defines it: the positions where the template
\* token is no label and equals the input token, plus the placeholder
\* positions when includeParams, over the length (numerator, denominator)
SimilarityOf(template, tokens, includeParams) ==
  <<Cardinality({i \in 1..Len(template) :
                   template[i] \notin Labels /\ template[i] = tokens[i]})
      + (IF includeParams THEN ParamCount(template) ELSE 0),
    Len(template)>>

\* the first candidate, in bucket order, among the ids that resolve in the
\* cache, that maximises (similarity, placeholder count); none below simTh
SelectedOf(bucket, tokens, simTh, includeParams) ==
  LET live == {i \in 1..Len(bucket) : Has(idToCluster, bucket[i])}
      T(i) == Peek(idToCluster, bucket[i]).tokens
      sim(i) == SimilarityOf(T(i), tokens, includeParams)
      beats(i, j) ==
        \/ sim(i)[1] * sim(j)[2] > sim(j)[1] * sim(i)[2]
        \/ /\ sim(i)[1] * sim(j)[2] = sim(j)[1] * sim(i)[2]
           /\ ParamCount(T(i)) > ParamCount(T(j))
      best == {i \in live : \A j \in live : ~beats(j, i) /\ (j < i => beats(i, j))}
  IN  IF best = {} THEN nil
      ELSE LET b == CHOOSE i \in best : TRUE
           IN  IF sim(b)[1] * simTh[2] >= simTh[1] * sim(b)[2]
               THEN Peek(idToCluster, bucket[b]) ELSE nil

\* the buckets and token sequences fastMatch can be called with: every live
\* template of the bucket has the length of the sequence
Scannable(node, tokens) ==
  \A id \in LiveIn(node) : Len(Peek(idToCluster, id).tokens) = Len(tokens)

\* C17: for every bucket of the tree, every token sequence of the corpus,
\* both thresholds and both values of includeParams, fastMatch returns the
\* first cluster in bucket order, among the ids that resolve in the cache,
\* that maximises (similarity, placeholder count), if its similarity is at
\* least simTh, and none otherwise.
C17_LeafSelection ==
  \A node \in DOMAIN rootNode, tokens \in LeafTokens,
     simTh \in {config.SimTh, <<1, 1>>}, includeParams \in BOOLEAN :
    Scannable(node, tokens) =>
      LET r == fastMatch(config, idToCluster, rootNode[node], tokens, simTh,
                         includeParams)
      IN  /\ ~r.panic
          /\ r.cluster = SelectedOf(rootNode[node], tokens, simTh, includeParams)

\* a bucket holds two live candidates that tie on both keys for a token
\* sequence, with a similarity that reaches the threshold
C17_Witness ==
  \E node \in DOMAIN rootNode, tokens \in LeafTokens :
    /\ Scannable(node, tokens)
    /\ \E a, b \in LiveIn(node) :
         /\ a # b
         /\ SimilarityOf(Peek(idToCluster, a).tokens, tokens, FALSE) =
            SimilarityOf(Peek(idToCluster, b).tokens, tokens, FALSE)
         /\ ParamCount(Peek(idToCluster, a).tokens) =
            ParamCount(Peek(idToCluster, b).tokens)
         /\ SelectedOf(rootNode[node], tokens, config.SimTh, FALSE).id \in {a, b}

\* C18: every id of a bucket under the first-level node for n tokens that
\* resolves in the cache names a cluster whose template has n tokens, and
\* no call fails in the similarity function or in the template update: the
\* only call that can fail is the insertion of a new cluster.
C18_NoLengthMismatch ==
  /\ \A node \in DOMAIN rootNode :
       Len(node) >= 1 =>
         \A id \in LiveIn(node) :
           /\ Len(Peek(idToCluster, id).tokens) < 10
           /\ node[1] = <<DigitChar[Len(Peek(idToCluster, id).tokens) + 1]>>
  /\ panicked => (lastCall.op = "Train" /\ lastCall.created)

\* a call scanned a bucket of several live candidates and returned one
C18_Witness ==
  /\ lastCall.id # 0
  /\ ~lastCall.created
  /\ lastCall.node \in DOMAIN rootNode
  /\ Cardinality(LiveIn(lastCall.node)) >= 2

\* C19 as stated: right after a Train returned cluster C, C is the most
\* recently used entry of the cache; with MaxClusters >= 2 the next Train
\* that creates a cluster does not evict C.
C19_ReturnedIsMostRecent ==
  /\ []((lastCall.op = "Train" /\ lastCall.id # 0) =>
          idToCluster[Len(idToCluster)].id = lastCall.id)
  /\ [][(/\ lastCall.op = "Train"
         /\ lastCall.id # 0
         /\ config.MaxClusters >= 2
         /\ lastCall'.op = "Train"
         /\ lastCall'.created) => Has(idToCluster', lastCall.id)]_vars

\* C20: a Train that matches cluster C creates no node and changes no
\* bucket, leaves the id counter and the set of cached ids as they were,
\* changes no other cluster, and adds exactly 1 to the size of C.
C20_MatchingTrainFrame ==
  [][(lastCall'.op = "Train" /\ ~lastCall'.created /\ lastCall'.id # 0) =>
       /\ rootNode' = rootNode
       /\ clustersCounter' = clustersCounter
       /\ IdSet(idToCluster') = IdSet(idToCluster)
       /\ \A id \in IdSet(idToCluster) \ {lastCall'.id} :
            Peek(idToCluster', id) = Peek(idToCluster, id)
       /\ Peek(idToCluster', lastCall'.id).size =
            Peek(idToCluster, lastCall'.id).size + 1]_vars

\* a Train matched a cluster while another cluster was in the cache
C20_Witness ==
  /\ MatchedTrain
  /\ Len(idToCluster) >= 2
  /\ Peek(idToCluster, lastCall.id).size >= 2

====
